---- MODULE Spec2Model ----
(***************************************************************************)
(* Model of twext/python/sendmsg.c: sendmsg_sendmsg (the two-pass encoder  *)
(* of the ancillary list into msg_control) and sendmsg_recvmsg (the walk   *)
(* of the received control buffer).                                        *)
(*                                                                         *)
(* Data model: ILP32, little endian, glibc <bits/socket.h>.  int, size_t,  *)
(* Py_ssize_t and socklen_t are 32 bits wide; struct cmsghdr is            *)
(* { size_t cmsg_len; int cmsg_level; int cmsg_type; } = 12 bytes; control *)
(* records are aligned to sizeof(size_t) = 4.                              *)
(*                                                                         *)
(* Numbers that can pass 2^31 - 1 are kept as two 16-bit limbs             *)
(* [hi, lo] = hi * 65536 + lo; a size_t is such a number with hi < 65536.  *)
(***************************************************************************)
EXTENDS Integers, Sequences, FiniteSets, TLC

\* ------------------------------------------------------------------ bounds
\* Longest ancillary list handed to sendmsg.
MaxRecords == 2
\* Most records the peer lays out in a raw control buffer handed to recvmsg.
MaxRaw == 2

\* ------------------------------------------------------ program constants
SOCKLEN_MAX == 2147483647
\* sizeof(struct cmsghdr)
SIZEOF_CMSGHDR == 12
\* sizeof(size_t), the control-record alignment of CMSG_ALIGN
SIZEOF_SIZE_T == 4
\* The null pointer, as a cursor value.
NULL == -1
\* A byte malloc() returned and nothing has written yet.
UNINIT == -1

\* ------------------------------------------------------------- arithmetic
Num(n) == [hi |-> n \div 65536, lo |-> n % 65536]

NumAdd(a, b) ==
    LET s == a.lo + b.lo
    IN  [hi |-> a.hi + b.hi + (s \div 65536), lo |-> s % 65536]

NumLt(a, b) == a.hi < b.hi \/ (a.hi = b.hi /\ a.lo < b.lo)

\* Conversion to the 32-bit size_t: the value modulo 2^32.
SizeT(a) == [hi |-> a.hi % 65536, lo |-> a.lo]

\* a - b in size_t arithmetic (modulo 2^32).
SizeSub(a, b) ==
    LET borrow == IF a.lo < b.lo THEN 1 ELSE 0
    IN  [hi |-> (a.hi - b.hi - borrow) % 65536,
         lo |-> (a.lo - b.lo) % 65536]

\* A size_t read as the signed 32-bit Py_ssize_t is negative.
SsizeNegative(a) == a.hi >= 32768

\* The value of a number below 2^31 as an integer.
Val(a) == a.hi * 65536 + a.lo

Min(a, b) == IF a < b THEN a ELSE b

\* ------------------------------------------------ <bits/socket.h> macros
\* CMSG_ALIGN(len) = (len + sizeof(size_t) - 1) & ~(sizeof(size_t) - 1)
CMSG_ALIGN(len) ==
    LET t == SizeT(NumAdd(len, Num(SIZEOF_SIZE_T - 1)))
    IN  [hi |-> t.hi, lo |-> t.lo - (t.lo % SIZEOF_SIZE_T)]

\* CMSG_SPACE(len) = CMSG_ALIGN(len) + CMSG_ALIGN(sizeof(struct cmsghdr))
CMSG_SPACE(len) ==
    SizeT(NumAdd(CMSG_ALIGN(len), CMSG_ALIGN(Num(SIZEOF_CMSGHDR))))

\* CMSG_LEN(len) = CMSG_ALIGN(sizeof(struct cmsghdr)) + len
CMSG_LEN(len) ==
    SizeT(NumAdd(CMSG_ALIGN(Num(SIZEOF_CMSGHDR)), len))

\* CMSG_DATA(cmsg) = (unsigned char *)(cmsg + 1)
CMSG_DATA(cm) == cm + SIZEOF_CMSGHDR

\* CMSG_FIRSTHDR(mhdr): msg_control when msg_controllen holds a header.
CMSG_FIRSTHDR(controllen) ==
    IF controllen >= SIZEOF_CMSGHDR THEN 0 ELSE NULL

\* Little-endian stores and loads of the 4-byte header fields.
IntBytes(n) ==
    << n % 256, (n \div 256) % 256, (n \div 65536) % 256,
       (n \div 16777216) % 256 >>

NumBytes(a) == << a.lo % 256, a.lo \div 256, a.hi % 256, a.hi \div 256 >>

\* The size_t at byte offset off (0-based) of bytes.
RdSize(bytes, off) ==
    [hi |-> bytes[off + 3] + 256 * bytes[off + 4],
     lo |-> bytes[off + 1] + 256 * bytes[off + 2]]

\* The int at byte offset off (0-based) of bytes.
RdInt(bytes, off) ==
    LET u  == bytes[off + 1] + 256 * bytes[off + 2] + 65536 * bytes[off + 3]
        b4 == bytes[off + 4]
    IN  IF b4 >= 128 THEN u + (b4 - 256) * 16777216 ELSE u + b4 * 16777216

\* bytes with src stored from byte offset off (0-based); stores that fall
\* behind the end of bytes are not part of it.
Store(bytes, off, src) ==
    [i \in DOMAIN bytes |->
        IF i > off /\ i <= off + Len(src) THEN src[i - off] ELSE bytes[i]]

\* __cmsg_nxthdr(mhdr, cmsg) of glibc: NULL when the current length is below
\* a header, when the next header does not fit, or when the next header's
\* own (aligned) cmsg_len -- read from the buffer -- does not fit.
CMSG_NXTHDR_unaligned(bytes, controllen, cm) ==
    LET len  == RdSize(bytes, cm)
        next == NumAdd(Num(cm), len)
    IN  IF NumLt(len, Num(SIZEOF_CMSGHDR)) THEN NULL
        ELSE IF NumLt(Num(controllen), NumAdd(next, Num(SIZEOF_CMSGHDR)))
        THEN NULL
        ELSE IF NumLt(Num(controllen),
                      NumAdd(next, CMSG_ALIGN(RdSize(bytes, Val(next)))))
        THEN NULL
        ELSE Val(next)

CMSG_NXTHDR(bytes, controllen, cm) ==
    LET len  == RdSize(bytes, cm)
        next == NumAdd(Num(cm), CMSG_ALIGN(len))
    IN  IF NumLt(len, Num(SIZEOF_CMSGHDR)) THEN NULL
        ELSE IF NumLt(Num(controllen), NumAdd(next, Num(SIZEOF_CMSGHDR)))
        THEN NULL
        ELSE IF NumLt(Num(controllen),
                      NumAdd(next, CMSG_ALIGN(RdSize(bytes, Val(next)))))
        THEN NULL
        ELSE Val(next)

\* ------------------------------------------------------------- the inputs
\* One element of the ancillary list.  k = "rec": a (level, type, data)
\* tuple; k = "huge": such a tuple whose data is HugeLen bytes long (its
\* bytes are never copied: every path fails first); k = "bad": an element
\* PyArg_ParseTuple rejects.
Item(k, level, type, data) ==
    [k |-> k, level |-> level, type |-> type, data |-> data]

HugeLen == SOCKLEN_MAX

Bad == Item("bad", 0, 0, <<>>)

Huge == Item("huge", 1, 1, <<>>)

Datas == { <<>>, <<7>>, <<1, 2, 3, 4, 5>> }

LevelTypes == { <<0, 0>>, <<1, 1>>, <<0, 1>> }

RecItems == { Item("rec", lt[1], lt[2], d) : lt \in LevelTypes, d \in Datas }

Items == RecItems \cup {Bad, Huge}

SeqUpTo(S, n) == UNION { [1..k -> S] : k \in 0..n }

\* What the second iteration of the list can yield: the same elements, or
\* the list with one element replaced, dropped or added in between (a list
\* subclass, or a record changed between the passes).
MutItems == { Bad, Huge, Item("rec", 1, 1, <<1, 2, 3, 4, 5>>) }

Variants(l) ==
    {l}
    \cup { [l EXCEPT ![i] = x] : i \in DOMAIN l, x \in MutItems }
    \cup { Append(l, x) : x \in MutItems }
    \cup { SubSeq(l, 1, Len(l) - 1) : i \in DOMAIN l }

\* The primary payloads (the "data" argument).
Payloads == { <<>>, <<112, 105, 110, 103>> }

\* data_len of an element, as PyArg_ParseTuple's "t#" reports it.
DataLen(item) ==
    IF item.k = "huge" THEN Num(HugeLen) ELSE Num(Len(item.data))

\* A record the peer (or the kernel) laid out in a raw control buffer:
\* the header fields as stored, and the data bytes that follow the header.
RawRec(len, level, type, data) ==
    [len |-> len, level |-> level, type |-> type, data |-> data]

\* Records whose stored cmsg_len is header + data length.
GoodRaw ==
    { RawRec(SIZEOF_CMSGHDR + Len(d), lt[1], lt[2], d) :
        lt \in LevelTypes, d \in { <<>>, <<7>> } }

\* Records whose stored cmsg_len is below a header, or runs past the data.
CorruptRaw ==
    { RawRec(0, 0, 0, <<>>),
      RawRec(8, 1, 1, <<7>>),
      RawRec(SIZEOF_CMSGHDR + 4, 1, 1, <<>>),
      RawRec(SIZEOF_CMSGHDR + 200, 1, 1, <<7>>) }

RawItems == GoodRaw \cup CorruptRaw

\* The bytes of one raw record: header, data, zero padding to the alignment.
RawBytes(r) ==
    LET body == NumBytes(Num(r.len)) \o IntBytes(r.level) \o IntBytes(r.type)
                \o r.data
        pad  == (SIZEOF_SIZE_T - (Len(body) % SIZEOF_SIZE_T)) % SIZEOF_SIZE_T
    IN  body \o [i \in 1..pad |-> 0]

RECURSIVE RawLayout(_)
RawLayout(rs) ==
    IF rs = <<>> THEN <<>> ELSE RawBytes(Head(rs)) \o RawLayout(Tail(rs))

\* cmsg_size arguments of recvmsg: one too small for most messages, one
\* that holds every control buffer of the model, one that overflows.
SmallCmsgSize == 4

BigCmsgSize == (MaxRecords + MaxRaw + 1) * 20

CmsgSizes == { Num(SmallCmsgSize), Num(BigCmsgSize), Num(HugeLen) }

\* Values an uninitialised byte can turn out to hold.
GarbageBytes == {0, 127}

\* errno values a failed sendmsg(2) or recvmsg(2) leaves: EINTR, EAGAIN,
\* EPIPE.
Errnos == {4, 11, 32}

\* ---------------------------------------------------------------- state
VARIABLES
    mode,            \* "send": sendmsg, then recvmsg of what it sent;
                     \* "raw": recvmsg of a raw control buffer
    spc,             \* position in sendmsg_sendmsg
    args_ok,         \* PyArg_ParseTupleAndKeywords accepts the arguments
    data,            \* iov[0]: the primary payload
    ancillary,       \* "ABSENT" (NULL), "NOTLIST" or "LIST"
    items1,          \* the elements the first iteration yields
    items2,          \* the elements the second iteration yields
    it,              \* elements the first iterator has yielded
    it2,             \* elements the second iterator has stored
    all_data_len,    \* size_t all_data_len
    msg_control,     \* "null", "live" (malloc'ed) or "freed"
    controlbuf,      \* the bytes msg_control points to
    msg_controllen,
    control_message, \* byte offset of the cursor in controlbuf, or NULL
    garbage,         \* what the uninitialised bytes of this malloc hold
    pyerr,           \* the pending Python exception, "none" when clear
    sret,            \* "none" (running), "NULL", "value" or "crash"
    sent,            \* the returned byte count
    sendmsg_calls,   \* calls of sendmsg(2)
    mallocs,
    frees,
    hdr_offs,        \* offsets at which the fill pass wrote a header
    heap_overflow,   \* memcpy wrote behind the end of controlbuf
    wire,            \* the message sendmsg(2) accepted
    rpc,             \* position in sendmsg_recvmsg
    rawRecs,         \* "raw" mode: the records laid out in the buffer
    cmsg_size,
    cmsgbuf,
    r_controllen,    \* message_header.msg_controllen after recvmsg(2)
    r_cm,            \* control_message of recvmsg
    r_list,          \* the list "ancillary" of recvmsg
    r_list_live,     \* ... and whether it is still referenced
    r_data,
    r_flags,
    final_result,
    rerr,
    recvmsg_calls,
    max_read,        \* 1 + highest offset of cmsgbuf read so far
    errno,           \* errno as the failed sendmsg(2)/recvmsg(2) left it
    err_code,        \* the code the raised socket.error carries
    pymsg            \* which OverflowError text PyErr_Format built, and
                     \* the number it names

sendVars ==
    << spc, args_ok, data, ancillary, items1, items2, it, it2, all_data_len,
       msg_control, controlbuf, msg_controllen, control_message, garbage,
       pyerr, sret, sent, sendmsg_calls, mallocs, frees, hdr_offs,
       heap_overflow, wire >>

recvVars ==
    << rpc, cmsg_size, cmsgbuf, r_controllen, r_cm, r_list, r_list_live,
       r_data, r_flags, final_result, rerr, recvmsg_calls, max_read >>

vars == << mode, rawRecs, errno, err_code, pymsg, sendVars, recvVars >>

NoResult == [set |-> FALSE, data |-> <<>>, flags |-> 0, ancillary |-> <<>>]

NoMsg == [fmt |-> "", arg |-> Num(0)]

NoWire == [present |-> FALSE, data |-> <<>>, control |-> <<>>]

SendInputs ==
    { << FALSE, "ABSENT", <<>> >>, << TRUE, "ABSENT", <<>> >>,
      << TRUE, "NOTLIST", <<>> >> }
    \cup { << TRUE, "LIST", l >> : l \in SeqUpTo(Items, MaxRecords) }

InitSend ==
    /\ it = 0
    /\ it2 = 0
    /\ all_data_len = Num(0)
    /\ msg_control = "null"
    /\ controlbuf = <<>>
    /\ msg_controllen = 0
    /\ control_message = NULL
    /\ garbage = 0
    /\ pyerr = "none"
    /\ sret = "none"
    /\ sent = 0
    /\ sendmsg_calls = 0
    /\ mallocs = 0
    /\ frees = 0
    /\ hdr_offs = <<>>
    /\ heap_overflow = FALSE
    /\ wire = NoWire
    /\ items2 = <<>>

InitRecv ==
    /\ cmsg_size = Num(0)
    /\ cmsgbuf = <<>>
    /\ r_controllen = 0
    /\ r_cm = NULL
    /\ r_list = <<>>
    /\ r_list_live = FALSE
    /\ r_data = <<>>
    /\ r_flags = 0
    /\ final_result = NoResult
    /\ rerr = "none"
    /\ recvmsg_calls = 0
    /\ max_read = 0

Init ==
    /\ InitSend
    /\ InitRecv
    /\ errno = 0
    /\ err_code = 0
    /\ pymsg = NoMsg
    /\ \/ /\ mode = "send"
          /\ spc = "args"
          /\ rpc = "idle"
          /\ rawRecs = <<>>
          /\ data \in Payloads
          /\ \E in \in SendInputs :
                /\ args_ok = in[1]
                /\ ancillary = in[2]
                /\ items1 = in[3]
       \/ /\ mode = "raw"
          /\ rpc = "args"
          /\ rawRecs \in SeqUpTo(RawItems, MaxRaw)
          /\ data = <<>>
          /\ args_ok = TRUE
          /\ ancillary = "ABSENT"
          /\ items1 = <<>>
          /\ spc = "idle"

\* ------------------------------------------------------ sendmsg_sendmsg
\* controlbuf as a read sees it: uninitialised bytes hold the garbage.
View(bytes) ==
    [i \in DOMAIN bytes |-> IF bytes[i] = UNINIT THEN garbage ELSE bytes[i]]

\* "return NULL" with the exception err set.
SendFail(err) ==
    /\ pyerr' = err
    /\ sret' = "NULL"
    /\ spc' = "done"

\* free(message_header.msg_control)
FreeControl ==
    /\ msg_control' = IF msg_control = "null" THEN "null" ELSE "freed"
    /\ frees' = IF msg_control = "null" THEN frees ELSE frees + 1

\* lines 119-127: the argument tuple is rejected.
SendArgsFail ==
    /\ spc = "args"
    /\ ~args_ok
    /\ SendFail("TypeError")
    /\ UNCHANGED << mode, rawRecs, errno, err_code, pymsg, it2, recvVars,
                    args_ok, data, ancillary, items1, items2, it,
                    all_data_len, msg_control, controlbuf, msg_controllen,
                    control_message, garbage, sent, sendmsg_calls, mallocs,
                    frees, hdr_offs, heap_overflow, wire >>

\* lines 129-140: no ancillary argument; msg_control stays NULL.
SendNoAncillary ==
    /\ spc = "args"
    /\ args_ok
    /\ ancillary = "ABSENT"
    /\ msg_control' = "null"
    /\ msg_controllen' = 0
    /\ spc' = "transmit"
    /\ UNCHANGED << mode, rawRecs, errno, err_code, pymsg, it2, recvVars,
                    args_ok, data, ancillary, items1, items2, it,
                    all_data_len, controlbuf, control_message, garbage, pyerr,
                    sret, sent, sendmsg_calls, mallocs, frees, hdr_offs,
                    heap_overflow, wire >>

\* lines 142-147: ancillary is not a list.
SendNotList ==
    /\ spc = "args"
    /\ args_ok
    /\ ancillary = "NOTLIST"
    /\ SendFail("TypeError")
    /\ UNCHANGED << mode, rawRecs, errno, err_code, pymsg, it2, recvVars,
                    args_ok, data, ancillary, items1, items2, it,
                    all_data_len, msg_control, controlbuf, msg_controllen,
                    control_message, garbage, sent, sendmsg_calls, mallocs,
                    frees, hdr_offs, heap_overflow, wire >>

\* lines 149-156: the first iterator.
SendGetIter ==
    /\ spc = "args"
    /\ args_ok
    /\ ancillary = "LIST"
    /\ it' = 0
    /\ all_data_len' = Num(0)
    /\ spc' = "size"
    /\ UNCHANGED << mode, rawRecs, errno, err_code, pymsg, it2, recvVars,
                    args_ok, data, ancillary, items1, items2, msg_control,
                    controlbuf, msg_controllen, control_message, garbage,
                    pyerr, sret, sent, sendmsg_calls, mallocs, frees,
                    hdr_offs, heap_overflow, wire >>

\* lines 152-154: PyObject_GetIter fails.
SendGetIterFail ==
    /\ spc = "args"
    /\ args_ok
    /\ ancillary = "LIST"
    /\ SendFail("IterError")
    /\ UNCHANGED << mode, rawRecs, errno, err_code, pymsg, it2, recvVars,
                    args_ok, data, ancillary, items1, items2, it,
                    all_data_len, msg_control, controlbuf, msg_controllen,
                    control_message, garbage, sent, sendmsg_calls, mallocs,
                    frees, hdr_offs, heap_overflow, wire >>

\* lines 165-171: an element of the first pass is no (int, int, buffer).
SizeItemBad ==
    /\ spc = "size"
    /\ it < Len(items1)
    /\ items1[it + 1].k = "bad"
    /\ it' = it + 1
    /\ SendFail("TypeError")
    /\ UNCHANGED << mode, rawRecs, errno, err_code, pymsg, it2, recvVars,
                    args_ok, data, ancillary, items1, items2, all_data_len,
                    msg_control, controlbuf, msg_controllen, control_message,
                    garbage, sent, sendmsg_calls, mallocs, frees, hdr_offs,
                    heap_overflow, wire >>

\* line 178 without the test: a wrapped sum is never seen.
Wrapped_never(prev, new) == FALSE

\* line 178 testing the new sum against SOCKLEN_MAX, not the previous sum.
Wrapped_above_max(prev, new) == NumLt(Num(SOCKLEN_MAX), new)

\* line 178: all_data_len < prev_all_data_len
Wrapped(prev, new) == NumLt(new, prev)

\* lines 173-185: all_data_len += CMSG_SPACE(data_len), and the wrap test.
SizeItemAdd ==
    /\ spc = "size"
    /\ it < Len(items1)
    /\ items1[it + 1].k # "bad"
    /\ LET new == SizeT(NumAdd(all_data_len,
                               CMSG_SPACE(DataLen(items1[it + 1]))))
       IN  /\ ~Wrapped(all_data_len, new)
           /\ all_data_len' = new
    /\ it' = it + 1
    /\ UNCHANGED << mode, rawRecs, errno, err_code, pymsg, it2, recvVars, spc,
                    args_ok, data, ancillary, items1, items2, msg_control,
                    controlbuf, msg_controllen, control_message, garbage,
                    pyerr, sret, sent, sendmsg_calls, mallocs, frees,
                    hdr_offs, heap_overflow, wire >>

\* lines 178-184: the sum wrapped: OverflowError.
SizeItemWrap ==
    /\ spc = "size"
    /\ it < Len(items1)
    /\ items1[it + 1].k # "bad"
    /\ LET new == SizeT(NumAdd(all_data_len,
                               CMSG_SPACE(DataLen(items1[it + 1]))))
       IN  /\ Wrapped(all_data_len, new)
           /\ all_data_len' = new
    /\ it' = it + 1
    /\ SendFail("OverflowError")
    /\ pymsg' = [fmt |-> "size_t", arg |-> all_data_len]
    /\ UNCHANGED << mode, rawRecs, errno, err_code, it2, recvVars, args_ok,
                    data, ancillary, items1, items2, msg_control, controlbuf,
                    msg_controllen, control_message, garbage, sent,
                    sendmsg_calls, mallocs, frees, hdr_offs, heap_overflow,
                    wire >>

\* line 160: PyIter_Next returns NULL with an exception set: the loop ends
\* as if the list were exhausted, the exception stays pending.
SizeIterError ==
    /\ spc = "size"
    /\ it <= Len(items1)
    /\ pyerr' = "IterError"
    /\ spc' = "alloc"
    /\ UNCHANGED << mode, rawRecs, errno, err_code, pymsg, it2, recvVars,
                    args_ok, data, ancillary, items1, items2, it,
                    all_data_len, msg_control, controlbuf, msg_controllen,
                    control_message, garbage, sret, sent, sendmsg_calls,
                    mallocs, frees, hdr_offs, heap_overflow, wire >>

\* lines 160, 187-188: the list is exhausted.
SizeEnd ==
    /\ spc = "size"
    /\ it = Len(items1)
    /\ spc' = "alloc"
    /\ UNCHANGED << mode, rawRecs, errno, err_code, pymsg, it2, recvVars,
                    args_ok, data, ancillary, items1, items2, it,
                    all_data_len, msg_control, controlbuf, msg_controllen,
                    control_message, garbage, pyerr, sret, sent,
                    sendmsg_calls, mallocs, frees, hdr_offs, heap_overflow,
                    wire >>

\* line 193: all_data_len > SOCKLEN_MAX
TooBig(len) == NumLt(Num(SOCKLEN_MAX), len)

\* lines 192-207 allocating also when all_data_len is zero.
AllocNone_malloc0 ==
    /\ spc = "alloc"
    /\ all_data_len = Num(0)
    /\ msg_control' = "live"
    /\ controlbuf' = <<>>
    /\ mallocs' = mallocs + 1
    /\ msg_controllen' = 0
    /\ spc' = "getiter2"
    /\ UNCHANGED << mode, rawRecs, errno, err_code, pymsg, it2, recvVars,
                    args_ok, data, ancillary, items1, items2, it,
                    all_data_len, control_message, garbage, pyerr, sret, sent,
                    sendmsg_calls, frees, hdr_offs, heap_overflow, wire >>

\* lines 192, 204-207: nothing to allocate; msg_control = NULL.
AllocNone ==
    /\ spc = "alloc"
    /\ all_data_len = Num(0)
    /\ msg_control' = "null"
    /\ msg_controllen' = 0
    /\ spc' = "getiter2"
    /\ UNCHANGED << mode, rawRecs, errno, err_code, pymsg, it2, recvVars,
                    args_ok, data, ancillary, items1, items2, it,
                    all_data_len, controlbuf, control_message, garbage, pyerr,
                    sret, sent, sendmsg_calls, mallocs, frees, hdr_offs,
                    heap_overflow, wire >>

\* lines 193-198: the total is above SOCKLEN_MAX: OverflowError.
AllocTooBig ==
    /\ spc = "alloc"
    /\ all_data_len # Num(0)
    /\ TooBig(all_data_len)
    /\ SendFail("OverflowError")
    /\ pymsg' = [fmt |-> "socklen_t", arg |-> all_data_len]
    /\ UNCHANGED << mode, rawRecs, errno, err_code, it2, recvVars, args_ok,
                    data, ancillary, items1, items2, it, all_data_len,
                    msg_control, controlbuf, msg_controllen, control_message,
                    garbage, sent, sendmsg_calls, mallocs, frees, hdr_offs,
                    heap_overflow, wire >>

\* lines 199-203: malloc fails.
AllocNoMem ==
    /\ spc = "alloc"
    /\ all_data_len # Num(0)
    /\ ~TooBig(all_data_len)
    /\ SendFail("MemoryError")
    /\ UNCHANGED << mode, rawRecs, errno, err_code, pymsg, it2, recvVars,
                    args_ok, data, ancillary, items1, items2, it,
                    all_data_len, msg_control, controlbuf, msg_controllen,
                    control_message, garbage, sent, sendmsg_calls, mallocs,
                    frees, hdr_offs, heap_overflow, wire >>

\* lines 199, 207: malloc(all_data_len); the bytes are uninitialised.
AllocOk ==
    /\ spc = "alloc"
    /\ all_data_len # Num(0)
    /\ ~TooBig(all_data_len)
    /\ msg_control' = "live"
    /\ controlbuf' = [i \in 1..Val(all_data_len) |-> UNINIT]
    /\ garbage' \in GarbageBytes
    /\ mallocs' = mallocs + 1
    /\ msg_controllen' = Val(all_data_len)
    /\ spc' = "getiter2"
    /\ UNCHANGED << mode, rawRecs, errno, err_code, pymsg, it2, recvVars,
                    args_ok, data, ancillary, items1, items2, it,
                    all_data_len, control_message, pyerr, sret, sent,
                    sendmsg_calls, frees, hdr_offs, heap_overflow, wire >>

\* lines 209-218: the second iterator, and CMSG_FIRSTHDR.
SendGetIterAgain ==
    /\ spc = "getiter2"
    /\ items2' \in Variants(items1)
    /\ it2' = 0
    /\ control_message' = CMSG_FIRSTHDR(msg_controllen)
    /\ spc' = "fill"
    /\ UNCHANGED << mode, rawRecs, errno, err_code, pymsg, it, recvVars,
                    args_ok, data, ancillary, items1, all_data_len,
                    msg_control, controlbuf, msg_controllen, garbage, pyerr,
                    sret, sent, sendmsg_calls, mallocs, frees, hdr_offs,
                    heap_overflow, wire >>

\* lines 212-215: PyObject_GetIter fails the second time.
SendGetIterAgainFail ==
    /\ spc = "getiter2"
    /\ FreeControl
    /\ SendFail("IterError")
    /\ UNCHANGED << mode, rawRecs, errno, err_code, pymsg, it2, recvVars,
                    args_ok, data, ancillary, items1, items2, it,
                    all_data_len, controlbuf, msg_controllen, control_message,
                    garbage, sent, sendmsg_calls, mallocs, hdr_offs,
                    heap_overflow, wire >>

\* line 226: assert(control_message) with a NULL cursor and an element left
\* (without the assertion, the store through NULL at line 240): the process
\* dies.
FillAssert ==
    /\ spc = "fill"
    /\ it2 < Len(items2)
    /\ control_message = NULL
    /\ sret' = "crash"
    /\ spc' = "done"
    /\ UNCHANGED << mode, rawRecs, errno, err_code, pymsg, it2, recvVars,
                    args_ok, data, ancillary, items1, items2, it,
                    all_data_len, msg_control, controlbuf, msg_controllen,
                    control_message, garbage, pyerr, sent, sendmsg_calls,
                    mallocs, frees, hdr_offs, heap_overflow, wire >>

\* lines 228-238: an element of the second pass is no (int, int, buffer).
FillItemBad ==
    /\ spc = "fill"
    /\ it2 < Len(items2)
    /\ control_message # NULL
    /\ items2[it2 + 1].k = "bad"
    /\ FreeControl
    /\ SendFail("TypeError")
    /\ UNCHANGED << mode, rawRecs, errno, err_code, pymsg, it2, recvVars,
                    args_ok, data, ancillary, items1, items2, it,
                    all_data_len, controlbuf, msg_controllen, control_message,
                    garbage, sent, sendmsg_calls, mallocs, hdr_offs,
                    heap_overflow, wire >>

\* line 244: data_size > SOCKLEN_MAX
LenTooBig(data_size) == NumLt(Num(SOCKLEN_MAX), data_size)

\* lines 240-253: CMSG_LEN(data_len) is above SOCKLEN_MAX; level and type
\* are already stored.
FillItemTooBig ==
    /\ spc = "fill"
    /\ it2 < Len(items2)
    /\ control_message # NULL
    /\ items2[it2 + 1].k # "bad"
    /\ LenTooBig(CMSG_LEN(DataLen(items2[it2 + 1])))
    /\ controlbuf' = Store(controlbuf, control_message + 4,
                           IntBytes(items2[it2 + 1].level)
                           \o IntBytes(items2[it2 + 1].type))
    /\ FreeControl
    /\ SendFail("OverflowError")
    /\ pymsg' = [fmt |-> "CMSG_LEN", arg |-> DataLen(items2[it2 + 1])]
    /\ UNCHANGED << mode, rawRecs, errno, err_code, it2, recvVars, args_ok,
                    data, ancillary, items1, items2, it, all_data_len,
                    msg_controllen, control_message, garbage, sent,
                    sendmsg_calls, mallocs, hdr_offs, heap_overflow, wire >>

\* line 255 storing the padded length.
StoredLen_padded(data_len) == CMSG_SPACE(data_len)

\* lines 242, 255: cmsg_len = CMSG_LEN(data_len)
StoredLen(data_len) == CMSG_LEN(data_len)

\* lines 240-241 with the level stored as the type and the type as the
\* level.
HeaderBytes_swapped(item) ==
    NumBytes(StoredLen(DataLen(item))) \o IntBytes(item.type)
    \o IntBytes(item.level)

\* The bytes of the record header for item: cmsg_len, cmsg_level, cmsg_type.
HeaderBytes(item) ==
    NumBytes(StoredLen(DataLen(item))) \o IntBytes(item.level)
    \o IntBytes(item.type)

\* controlbuf after lines 240-258 stored item at the cursor cm.
Filled(bytes, cm, item) ==
    Store(Store(bytes, cm, HeaderBytes(item)), CMSG_DATA(cm), item.data)

\* memcpy at line 258 runs past the end of the malloc'ed block.
Overruns(cm, item) == CMSG_DATA(cm) + Len(item.data) > msg_controllen

\* lines 240-262: store the header, copy the data, step to the next header.
FillItemWrite ==
    /\ spc = "fill"
    /\ it2 < Len(items2)
    /\ control_message # NULL
    /\ items2[it2 + 1].k # "bad"
    /\ ~LenTooBig(CMSG_LEN(DataLen(items2[it2 + 1])))
    /\ controlbuf' = Filled(controlbuf, control_message, items2[it2 + 1])
    /\ heap_overflow' =
          (heap_overflow \/ Overruns(control_message, items2[it2 + 1]))
    /\ hdr_offs' = Append(hdr_offs, control_message)
    /\ control_message' =
          CMSG_NXTHDR(View(controlbuf'), msg_controllen, control_message)
    /\ it2' = it2 + 1
    /\ UNCHANGED << mode, rawRecs, errno, err_code, pymsg, it, recvVars, spc,
                    args_ok, data, ancillary, items1, items2, all_data_len,
                    msg_control, msg_controllen, garbage, pyerr, sret, sent,
                    sendmsg_calls, mallocs, frees, wire >>

\* line 258: the memcpy past the end of the block kills the process.
FillItemSmash ==
    /\ spc = "fill"
    /\ it2 < Len(items2)
    /\ control_message # NULL
    /\ items2[it2 + 1].k # "bad"
    /\ ~LenTooBig(CMSG_LEN(DataLen(items2[it2 + 1])))
    /\ Overruns(control_message, items2[it2 + 1])
    /\ heap_overflow' = TRUE
    /\ sret' = "crash"
    /\ spc' = "done"
    /\ UNCHANGED << mode, rawRecs, errno, err_code, pymsg, it2, recvVars,
                    args_ok, data, ancillary, items1, items2, it,
                    all_data_len, msg_control, controlbuf, msg_controllen,
                    control_message, garbage, pyerr, sent, sendmsg_calls,
                    mallocs, frees, hdr_offs, wire >>

\* line 267 without the test.
ErrOccurred_never(err) == FALSE

\* line 267: PyErr_Occurred()
ErrOccurred(err) == err # "none"

\* lines 219, 265-270: PyIter_Next returns NULL with an exception set.
FillIterError ==
    /\ spc = "fill"
    /\ it2 <= Len(items2)
    /\ IF ErrOccurred("IterError")
       THEN /\ FreeControl
            /\ SendFail("IterError")
       ELSE /\ pyerr' = "IterError"
            /\ spc' = "transmit"
            /\ UNCHANGED << msg_control, frees, sret >>
    /\ UNCHANGED << mode, rawRecs, errno, err_code, pymsg, it2, recvVars,
                    args_ok, data, ancillary, items1, items2, it,
                    all_data_len, controlbuf, msg_controllen, control_message,
                    garbage, sent, sendmsg_calls, mallocs, hdr_offs,
                    heap_overflow, wire >>

\* lines 219, 265-270: the list is exhausted, an exception is pending.
FillEndErr ==
    /\ spc = "fill"
    /\ it2 = Len(items2)
    /\ ErrOccurred(pyerr)
    /\ FreeControl
    /\ sret' = "NULL"
    /\ spc' = "done"
    /\ UNCHANGED << mode, rawRecs, errno, err_code, pymsg, it2, recvVars,
                    args_ok, data, ancillary, items1, items2, it,
                    all_data_len, controlbuf, msg_controllen, control_message,
                    garbage, pyerr, sent, sendmsg_calls, mallocs, hdr_offs,
                    heap_overflow, wire >>

\* lines 219, 265-271: the list is exhausted, no exception is pending.
FillEnd ==
    /\ spc = "fill"
    /\ it2 = Len(items2)
    /\ ~ErrOccurred(pyerr)
    /\ spc' = "transmit"
    /\ UNCHANGED << mode, rawRecs, errno, err_code, pymsg, it2, recvVars,
                    args_ok, data, ancillary, items1, items2, it,
                    all_data_len, msg_control, controlbuf, msg_controllen,
                    control_message, garbage, pyerr, sret, sent,
                    sendmsg_calls, mallocs, frees, hdr_offs, heap_overflow,
                    wire >>

\* lines 277, 347 raising socket.error without the errno.
SetFromErrno_dropped(e) == 0

\* lines 277, 347: PyErr_SetFromErrno(sendmsg_socket_error); the exception
\* carries errno as it is.
SetFromErrno(e) == e

\* lines 273-281: sendmsg(2) returns a negative value.
TransmitFail ==
    /\ spc = "transmit"
    /\ sendmsg_calls' = sendmsg_calls + 1
    /\ \E e \in Errnos :
          /\ errno' = e
          /\ err_code' = SetFromErrno(e)
    /\ FreeControl
    /\ SendFail("socket.error")
    /\ UNCHANGED << mode, rawRecs, pymsg, it2, recvVars, args_ok, data,
                    ancillary, items1, items2, it, all_data_len, controlbuf,
                    msg_controllen, control_message, garbage, sent, mallocs,
                    hdr_offs, heap_overflow, wire >>

\* lines 273, 283: sendmsg(2) accepts the message; the byte count is
\* returned.  The receiving side may now run.
TransmitOk ==
    /\ spc = "transmit"
    /\ sendmsg_calls' = sendmsg_calls + 1
    /\ wire' = [present |-> TRUE, data |-> data,
                control |-> IF msg_control = "live"
                            THEN SubSeq(View(controlbuf), 1, msg_controllen)
                            ELSE <<>>]
    /\ sent' = Len(data)
    /\ sret' = "value"
    /\ spc' = "done"
    /\ rpc' = "args"
    /\ UNCHANGED << mode, rawRecs, errno, err_code, pymsg, it2, args_ok, data,
                    ancillary, items1, items2, it, all_data_len, msg_control,
                    controlbuf, msg_controllen, control_message, garbage,
                    pyerr, mallocs, frees, hdr_offs, heap_overflow, cmsg_size,
                    cmsgbuf, r_controllen, r_cm, r_list, r_list_live, r_data,
                    r_flags, final_result, rerr, recvmsg_calls, max_read >>

\* ------------------------------------------------------ sendmsg_recvmsg
\* "goto finished" / "return NULL" with the exception err set.
RecvFail(err) ==
    /\ rerr' = err
    /\ final_result' = NoResult
    /\ rpc' = "done"

\* lines 303-306: the argument tuple is rejected.
RecvArgsFail ==
    /\ rpc = "args"
    /\ RecvFail("TypeError")
    /\ UNCHANGED << mode, rawRecs, errno, err_code, pymsg, sendVars,
                    cmsg_size, cmsgbuf, r_controllen, r_cm, r_list,
                    r_list_live, r_data, r_flags, recvmsg_calls, max_read >>

\* lines 308-316: CMSG_SPACE(cmsg_size) is above SOCKLEN_MAX.
RecvOverflow ==
    /\ rpc = "args"
    /\ \E cs \in CmsgSizes :
          /\ NumLt(Num(SOCKLEN_MAX), CMSG_SPACE(cs))
          /\ cmsg_size' = cs
    /\ RecvFail("OverflowError")
    /\ UNCHANGED << mode, rawRecs, errno, err_code, pymsg, sendVars, cmsgbuf,
                    r_controllen, r_cm, r_list, r_list_live, r_data, r_flags,
                    recvmsg_calls, max_read >>

\* lines 322-338: one of the two malloc calls fails.
RecvNoMem ==
    /\ rpc = "args"
    /\ \E cs \in CmsgSizes :
          /\ ~NumLt(Num(SOCKLEN_MAX), CMSG_SPACE(cs))
          /\ cmsg_size' = cs
    /\ RecvFail("MemoryError")
    /\ UNCHANGED << mode, rawRecs, errno, err_code, pymsg, sendVars, cmsgbuf,
                    r_controllen, r_cm, r_list, r_list_live, r_data, r_flags,
                    recvmsg_calls, max_read >>

\* lines 308-343: cmsgbuf = malloc(cmsg_space), zero filled.
RecvAlloc ==
    /\ rpc = "args"
    /\ \E cs \in CmsgSizes :
          /\ ~NumLt(Num(SOCKLEN_MAX), CMSG_SPACE(cs))
          /\ cmsg_size' = cs
          /\ cmsgbuf' = [i \in 1..Val(CMSG_SPACE(cs)) |-> 0]
    /\ rpc' = "recvmsg"
    /\ UNCHANGED << mode, rawRecs, errno, err_code, pymsg, sendVars,
                    r_controllen, r_cm, r_list, r_list_live, r_data, r_flags,
                    final_result, rerr, recvmsg_calls, max_read >>

\* lines 345-349: recvmsg(2) returns a negative value.
RecvCallFail ==
    /\ rpc = "recvmsg"
    /\ recvmsg_calls' = recvmsg_calls + 1
    /\ \E e \in Errnos :
          /\ errno' = e
          /\ err_code' = SetFromErrno(e)
    /\ RecvFail("socket.error")
    /\ UNCHANGED << mode, rawRecs, pymsg, sendVars, cmsg_size, cmsgbuf,
                    r_controllen, r_cm, r_list, r_list_live, r_data, r_flags,
                    max_read >>

\* The control bytes the kernel has for this receive.
Incoming == IF mode = "send" THEN wire.control ELSE RawLayout(rawRecs)

\* line 345: recvmsg(2) stores n control bytes and sets msg_controllen = n.
\* A message the model's sendmsg sent arrives whole, or cut to the size of
\* cmsgbuf; a raw buffer may end anywhere.
RecvCall ==
    /\ rpc = "recvmsg"
    /\ recvmsg_calls' = recvmsg_calls + 1
    /\ \E n \in 0..Min(Len(Incoming), Len(cmsgbuf)) :
          /\ mode = "send" => n = Min(Len(Incoming), Len(cmsgbuf))
          /\ r_controllen' = n
          /\ cmsgbuf' = Store(cmsgbuf, 0, SubSeq(Incoming, 1, n))
          /\ r_flags' = IF n < Len(Incoming) THEN 8 ELSE 0
    /\ r_data' = IF mode = "send" THEN wire.data ELSE <<>>
    /\ rpc' = "list_new"
    /\ UNCHANGED << mode, rawRecs, errno, err_code, pymsg, sendVars,
                    cmsg_size, r_cm, r_list, r_list_live, final_result, rerr,
                    max_read >>

\* lines 351-354: PyList_New fails.
RecvListNewFail ==
    /\ rpc = "list_new"
    /\ RecvFail("MemoryError")
    /\ UNCHANGED << mode, rawRecs, errno, err_code, pymsg, sendVars,
                    cmsg_size, cmsgbuf, r_controllen, r_cm, r_list,
                    r_list_live, r_data, r_flags, recvmsg_calls, max_read >>

\* lines 351-356: the empty list, and CMSG_FIRSTHDR.
RecvListNew ==
    /\ rpc = "list_new"
    /\ r_list' = <<>>
    /\ r_list_live' = TRUE
    /\ r_cm' = CMSG_FIRSTHDR(r_controllen)
    /\ rpc' = "walk"
    /\ UNCHANGED << mode, rawRecs, errno, err_code, pymsg, sendVars,
                    cmsg_size, cmsgbuf, r_controllen, r_data, r_flags,
                    final_result, rerr, recvmsg_calls, max_read >>

\* lines 366-367 with "or" for "and".
IsBogus_either(level, type) == level = 0 \/ type = 0

\* lines 366-367: both cmsg_level and cmsg_type are zero.
IsBogus(level, type) == level = 0 /\ type = 0

\* The header fields at the cursor.
CmLevel == RdInt(cmsgbuf, r_cm + 4)

CmType == RdInt(cmsgbuf, r_cm + 8)

\* line 376: cmsg_len - sizeof(struct cmsghdr), a size_t
CmDataLen == SizeSub(RdSize(cmsgbuf, r_cm), Num(SIZEOF_CMSGHDR))

\* The data bytes of the entry lie inside the block cmsgbuf.
CmDataInBlock ==
    /\ ~SsizeNegative(CmDataLen)
    /\ ~NumLt(Num(Len(cmsgbuf)), NumAdd(Num(CMSG_DATA(r_cm)), CmDataLen))

\* The Python tuple (level, type, data) of lines 371-376; bytes behind the
\* end of cmsgbuf read as UNINIT.
CmEntry ==
    [level |-> CmLevel, type |-> CmType,
     data  |-> [i \in 1..Val(CmDataLen) |->
                  IF CMSG_DATA(r_cm) + i <= Len(cmsgbuf)
                  THEN cmsgbuf[CMSG_DATA(r_cm) + i] ELSE UNINIT]]

Max(a, b) == IF a > b THEN a ELSE b

\* max_read after the header at the cursor was read.
ReadHeader == Max(max_read, r_cm + SIZEOF_CMSGHDR)

\* max_read after header and data at the cursor were read.
ReadEntry ==
    IF Val(CmDataLen) > 0
    THEN Max(ReadHeader, CMSG_DATA(r_cm) + Val(CmDataLen))
    ELSE ReadHeader

\* line 383 putting the entry in front.
ListAppend_front(list, entry) == <<entry>> \o list

\* line 383: PyList_Append
ListAppend(list, entry) == Append(list, entry)

\* lines 366-369: the bogus all-zero record is skipped.
WalkSkip ==
    /\ rpc = "walk"
    /\ r_cm # NULL
    /\ IsBogus(CmLevel, CmType)
    /\ max_read' = ReadHeader
    /\ r_cm' = CMSG_NXTHDR(cmsgbuf, r_controllen, r_cm)
    /\ UNCHANGED << mode, rawRecs, errno, err_code, pymsg, sendVars, rpc,
                    cmsg_size, cmsgbuf, r_controllen, r_list, r_list_live,
                    r_data, r_flags, final_result, rerr, recvmsg_calls >>

\* lines 371-389: the entry is built and appended.
WalkEmit ==
    /\ rpc = "walk"
    /\ r_cm # NULL
    /\ ~IsBogus(CmLevel, CmType)
    /\ CmDataInBlock
    /\ r_list' = ListAppend(r_list, CmEntry)
    /\ max_read' = ReadEntry
    /\ r_cm' = CMSG_NXTHDR(cmsgbuf, r_controllen, r_cm)
    /\ UNCHANGED << mode, rawRecs, errno, err_code, pymsg, sendVars, rpc,
                    cmsg_size, cmsgbuf, r_controllen, r_list_live, r_data,
                    r_flags, final_result, rerr, recvmsg_calls >>

\* What recvmsg returns after an entry could not be built or appended, the
\* list being returned as it stands.
EntryFailResult_partial(list) ==
    [set |-> TRUE, data |-> r_data, flags |-> r_flags, ancillary |-> list]

\* lines 378-387, 401-404: ... final_result is still NULL.
EntryFailResult(list) == NoResult

\* "Py_DECREF(ancillary); goto finished" with the exception err set.
EntryFail(err) ==
    /\ rerr' = err
    /\ r_list_live' = FALSE
    /\ final_result' = EntryFailResult(r_list)
    /\ rpc' = "done"

\* lines 371-381: the length is negative as a Py_ssize_t: Py_BuildValue
\* fails with SystemError.
WalkNegative ==
    /\ rpc = "walk"
    /\ r_cm # NULL
    /\ ~IsBogus(CmLevel, CmType)
    /\ SsizeNegative(CmDataLen)
    /\ max_read' = ReadHeader
    /\ EntryFail("SystemError")
    /\ UNCHANGED << mode, rawRecs, errno, err_code, pymsg, sendVars,
                    cmsg_size, cmsgbuf, r_controllen, r_cm, r_list, r_data,
                    r_flags, recvmsg_calls >>

\* lines 371-381: Py_BuildValue fails for lack of memory.
WalkBuildFail ==
    /\ rpc = "walk"
    /\ r_cm # NULL
    /\ ~IsBogus(CmLevel, CmType)
    /\ ~SsizeNegative(CmDataLen)
    /\ max_read' = ReadHeader
    /\ EntryFail("MemoryError")
    /\ UNCHANGED << mode, rawRecs, errno, err_code, pymsg, sendVars,
                    cmsg_size, cmsgbuf, r_controllen, r_cm, r_list, r_data,
                    r_flags, recvmsg_calls >>

\* lines 383-386: PyList_Append fails.
WalkAppendFail ==
    /\ rpc = "walk"
    /\ r_cm # NULL
    /\ ~IsBogus(CmLevel, CmType)
    /\ CmDataInBlock
    /\ max_read' = ReadEntry
    /\ EntryFail("MemoryError")
    /\ UNCHANGED << mode, rawRecs, errno, err_code, pymsg, sendVars,
                    cmsg_size, cmsgbuf, r_controllen, r_cm, r_list, r_data,
                    r_flags, recvmsg_calls >>

\* lines 371-376: the data runs past the end of the block cmsgbuf and the
\* read faults.
WalkOutOfBlockCrash ==
    /\ rpc = "walk"
    /\ r_cm # NULL
    /\ ~IsBogus(CmLevel, CmType)
    /\ ~SsizeNegative(CmDataLen)
    /\ ~CmDataInBlock
    /\ max_read' = ReadHeader
    /\ rerr' = "crash"
    /\ rpc' = "done"
    /\ UNCHANGED << mode, rawRecs, errno, err_code, pymsg, sendVars,
                    cmsg_size, cmsgbuf, r_controllen, r_cm, r_list,
                    r_list_live, r_data, r_flags, final_result, recvmsg_calls >>

\* lines 371-389: the data runs past the end of the block cmsgbuf and the
\* read returns whatever lies there.
WalkOutOfBlockEmit ==
    /\ rpc = "walk"
    /\ r_cm # NULL
    /\ ~IsBogus(CmLevel, CmType)
    /\ ~SsizeNegative(CmDataLen)
    /\ ~CmDataInBlock
    /\ CmDataLen.hi = 0
    /\ r_list' = ListAppend(r_list, CmEntry)
    /\ max_read' = ReadEntry
    /\ r_cm' = CMSG_NXTHDR(cmsgbuf, r_controllen, r_cm)
    /\ UNCHANGED << mode, rawRecs, errno, err_code, pymsg, sendVars, rpc,
                    cmsg_size, cmsgbuf, r_controllen, r_list_live, r_data,
                    r_flags, final_result, rerr, recvmsg_calls >>

\* lines 392-404: the walk is over; the result tuple is built.
WalkEnd ==
    /\ rpc = "walk"
    /\ r_cm = NULL
    /\ final_result' = [set |-> TRUE, data |-> r_data, flags |-> r_flags,
                        ancillary |-> r_list]
    /\ r_list_live' = FALSE
    /\ rpc' = "done"
    /\ UNCHANGED << mode, rawRecs, errno, err_code, pymsg, sendVars,
                    cmsg_size, cmsgbuf, r_controllen, r_cm, r_list, r_data,
                    r_flags, rerr, recvmsg_calls, max_read >>

\* lines 392-404: the walk is over; Py_BuildValue fails.
WalkEndFail ==
    /\ rpc = "walk"
    /\ r_cm = NULL
    /\ r_list_live' = FALSE
    /\ RecvFail("MemoryError")
    /\ UNCHANGED << mode, rawRecs, errno, err_code, pymsg, sendVars,
                    cmsg_size, cmsgbuf, r_controllen, r_cm, r_list, r_data,
                    r_flags, recvmsg_calls, max_read >>

\* ----------------------------------------------------------- the system
Next ==
    \/ SendArgsFail
    \/ SendNoAncillary
    \/ SendNotList
    \/ SendGetIter
    \/ SendGetIterFail
    \/ SizeItemBad
    \/ SizeItemAdd
    \/ SizeItemWrap
    \/ SizeIterError
    \/ SizeEnd
    \/ AllocNone
    \/ AllocTooBig
    \/ AllocNoMem
    \/ AllocOk
    \/ SendGetIterAgain
    \/ SendGetIterAgainFail
    \/ FillAssert
    \/ FillItemBad
    \/ FillItemTooBig
    \/ FillItemWrite
    \/ FillItemSmash
    \/ FillIterError
    \/ FillEndErr
    \/ FillEnd
    \/ TransmitFail
    \/ TransmitOk
    \/ RecvArgsFail
    \/ RecvOverflow
    \/ RecvNoMem
    \/ RecvAlloc
    \/ RecvCallFail
    \/ RecvCall
    \/ RecvListNewFail
    \/ RecvListNew
    \/ WalkSkip
    \/ WalkEmit
    \/ WalkNegative
    \/ WalkBuildFail
    \/ WalkAppendFail
    \/ WalkOutOfBlockCrash
    \/ WalkOutOfBlockEmit
    \/ WalkEnd
    \/ WalkEndFail

Spec == Init /\ [][Next]_vars

\* ------------------------------------------------------------ the claims
\* The (level, type, data) records of a list of well-formed elements.
Sent(items) ==
    [i \in DOMAIN items |->
        [level |-> items[i].level, type |-> items[i].type,
         data  |-> items[i].data]]

\* items without the elements whose level and type are both zero.
WithoutZero(items) ==
    SelectSeq(items, LAMBDA x : ~(x.level = 0 /\ x.type = 0))

\* s is t with some elements left out.
RECURSIVE IsSubseq(_, _)
IsSubseq(s, t) ==
    IF s = <<>> THEN TRUE
    ELSE IF t = <<>> THEN FALSE
    ELSE IF Head(s) = Head(t) THEN IsSubseq(Tail(s), Tail(t))
    ELSE IsSubseq(s, Tail(t))

IsPrefix(s, t) == Len(s) <= Len(t) /\ SubSeq(t, 1, Len(s)) = s

\* align_up(header_size + payload_len), in plain integers.
AlignUp(n) == ((n + SIZEOF_SIZE_T - 1) \div SIZEOF_SIZE_T) * SIZEOF_SIZE_T

Space(item) == AlignUp(SIZEOF_CMSGHDR + Len(item.data))

RECURSIVE SumSpace(_)
SumSpace(items) ==
    IF items = <<>> THEN 0 ELSE Space(Head(items)) + SumSpace(Tail(items))

\* The unbounded sum of the per-record aligned space of items.
RECURSIVE TrueSpace(_)
TrueSpace(items) ==
    IF items = <<>> THEN Num(0)
    ELSE NumAdd(CMSG_SPACE(DataLen(Head(items))), TrueSpace(Tail(items)))

NoBad(items) == \A i \in DOMAIN items : items[i].k # "bad"

\* sendmsg sent the list it sized, recvmsg got all of it and returned.
WholeRoundTrip ==
    /\ mode = "send"
    /\ rpc = "done"
    /\ final_result.set
    /\ ancillary = "LIST"
    /\ items2 = items1
    /\ r_controllen = Len(wire.control)

\* C1 as stated: decoding what encoding a list produced (all of it
\* received) returns exactly the list, every record with its level, type
\* and unpadded data.
C1_RoundTripAnyList ==
    WholeRoundTrip =>
        /\ final_result.ancillary = Sent(items1)
        /\ final_result.data = data

\* C1 amended: decoding what encoding a list produced (all of it received)
\* returns the primary payload and, in order and with level, type and
\* unpadded data, the records of the list that do not have level and type
\* both zero; the records with level = 0 and type = 0 are left out.
C1_RoundTrip ==
    WholeRoundTrip =>
        /\ final_result.ancillary = Sent(WithoutZero(items1))
        /\ final_result.data = data

C1_Witness ==
    /\ WholeRoundTrip
    /\ Len(items1) = 2
    /\ Len(items1[1].data) = 1
    /\ Len(items1[2].data) = 5
    /\ final_result.ancillary = Sent(items1)
    /\ Len(final_result.ancillary[1].data) = 1
    /\ Len(data) = 4

\* C2: the records recvmsg returns for a message of sendmsg are records of
\* the list in the order of the list: the returned list is the sent list
\* with elements left out (also when the control data arrived cut short),
\* as long as every returned record lies inside the received bytes.
C2_OrderPreserved ==
    ( /\ mode = "send"
      /\ rpc = "done"
      /\ final_result.set
      /\ ancillary = "LIST"
      /\ items2 = items1
      /\ max_read <= r_controllen )
    => IsSubseq(final_result.ancillary, Sent(items1))

C2_Witness ==
    /\ WholeRoundTrip
    /\ Len(final_result.ancillary) = 2
    /\ final_result.ancillary[1] # final_result.ancillary[2]
    /\ final_result.ancillary = Sent(items1)

\* The well-formed records of a raw buffer that lie, padding included,
\* inside its first n bytes.
RECURSIVE CompleteRecs(_, _)
CompleteRecs(rs, n) ==
    IF rs = <<>> \/ Len(RawBytes(Head(rs))) > n THEN <<>>
    ELSE <<Head(rs)>> \o CompleteRecs(Tail(rs), n - Len(RawBytes(Head(rs))))

RawEntries(rs) ==
    [i \in DOMAIN rs |->
        [level |-> rs[i].level, type |-> rs[i].type, data |-> rs[i].data]]

AllGoodRaw == \A i \in DOMAIN rawRecs : rawRecs[i] \in GoodRaw

\* C3: no record with level and type both zero is ever put in the list;
\* walking a raw buffer of well-formed records, every complete record that
\* has a nonzero level or type is returned, in order, also when it follows
\* a skipped record.
C3_ZeroFilter ==
    /\ \A i \in DOMAIN r_list : ~(r_list[i].level = 0 /\ r_list[i].type = 0)
    /\ ( /\ mode = "raw"
         /\ rpc = "done"
         /\ final_result.set
         /\ AllGoodRaw )
       => IsPrefix(RawEntries(WithoutZero(CompleteRecs(rawRecs,
                                                       r_controllen))),
                   final_result.ancillary)

C3_Witness ==
    /\ mode = "raw"
    /\ rpc = "done"
    /\ final_result.set
    /\ Len(rawRecs) = 2
    /\ rawRecs[1].level = 0 /\ rawRecs[1].type = 0
    /\ rawRecs[1].len = SIZEOF_CMSGHDR + 1
    /\ rawRecs[2].level = 0 /\ rawRecs[2].type = 1
    /\ r_controllen = Len(RawLayout(rawRecs))
    /\ final_result.ancillary = RawEntries(Tail(rawRecs))

\* The elements the sizing pass took from the iterator.
Sized == SubSeq(items1, 1, it)

\* C4: when the aligned space of the records the sizing pass was given adds
\* up to more than SOCKLEN_MAX, sendmsg ends in OverflowError, and in that
\* run nothing was allocated and sendmsg(2) was not called.
C4_OverflowDeterminism ==
    ( /\ ancillary = "LIST"
      /\ spc \notin {"args", "size", "alloc"}
      /\ NoBad(Sized)
      /\ NumLt(Num(SOCKLEN_MAX), TrueSpace(Sized)) )
    => /\ spc = "done"
       /\ pyerr = "OverflowError"
       /\ sret = "NULL"
       /\ mallocs = 0
       /\ sendmsg_calls = 0

C4_Witness ==
    /\ spc = "done"
    /\ items1 = <<Huge, Huge>>
    /\ it = 2
    /\ pyerr = "OverflowError"
    /\ mallocs = 0
    /\ sendmsg_calls = 0

\* sendmsg is about to call sendmsg(2) for an empty list.
EmptyListEncoded ==
    /\ spc = "transmit"
    /\ ancillary = "LIST"
    /\ items1 = <<>>
    /\ items2 = <<>>

\* C5 as stated: an empty list gives a control buffer of length zero that
\* is present (not NULL), unlike the call without the ancillary argument.
C5_EmptyBufferPresent ==
    EmptyListEncoded => (msg_controllen = 0 /\ msg_control # "null")

\* C5 amended: an empty list gives control length zero and a NULL control
\* buffer, nothing being allocated: the same msg_control and
\* msg_controllen as the call without the ancillary argument.
C5_EmptyBufferNull ==
    /\ EmptyListEncoded =>
          (msg_controllen = 0 /\ msg_control = "null" /\ mallocs = 0)
    /\ (spc = "transmit" /\ ancillary = "ABSENT") =>
          (msg_controllen = 0 /\ msg_control = "null" /\ mallocs = 0)

C5_Witness ==
    /\ EmptyListEncoded
    /\ msg_control = "null"
    /\ msg_controllen = 0

\* The offsets at which the records of items start when each takes its
\* aligned space.
StartOffsets(items) ==
    [i \in DOMAIN items |-> SumSpace(SubSeq(items, 1, i - 1))]

\* C6: after the list was encoded, msg_controllen is the sum of the aligned
\* space of its records, record i was written at the sum of the space of
\* the records before it, and every such offset is a multiple of the
\* alignment.
C6_Layout ==
    ( /\ spc = "transmit"
      /\ ancillary = "LIST"
      /\ items2 = items1 )
    => /\ msg_controllen = SumSpace(items1)
       /\ hdr_offs = StartOffsets(items1)
       /\ \A i \in DOMAIN hdr_offs : hdr_offs[i] % SIZEOF_SIZE_T = 0

C6_Witness ==
    /\ spc = "transmit"
    /\ ancillary = "LIST"
    /\ items2 = items1
    /\ Len(items1) = 2
    /\ Len(items1[1].data) = 1
    /\ Len(items1[2].data) = 5
    /\ msg_controllen = 36
    /\ hdr_offs = <<0, 16>>

\* Failures of recvmsg that do not come from the bytes of the buffer.
OutsideFailures == {"TypeError", "OverflowError", "MemoryError", "socket.error"}

\* C7 as stated, for buffers of well-formed records: wherever the received
\* length cuts the buffer, the walk ends without an error of its own and
\* never reads a byte at an offset >= the received length; with received
\* length 0 the list is empty.
C7_TruncationTolerant ==
    (mode = "raw" /\ AllGoodRaw) =>
        /\ max_read <= r_controllen
        /\ rpc = "done" => rerr \in OutsideFailures \cup {"none"}
        /\ (rpc = "done" /\ final_result.set /\ r_controllen = 0)
              => final_result.ancillary = <<>>

\* The first header lies inside the received bytes and stores a length
\* below the header size or past the received length.
FirstHeaderCorrupt ==
    /\ r_controllen >= SIZEOF_CMSGHDR
    /\ \/ NumLt(RdSize(cmsgbuf, 0), Num(SIZEOF_CMSGHDR))
       \/ NumLt(Num(r_controllen), RdSize(cmsgbuf, 0))

\* The exceptions that count as the ValidationError of a corrupt header:
\* the SystemError Py_BuildValue raises for a negative length is taken as
\* one.
ValidationErrors == {"ValidationError", "SystemError"}

\* C8 as stated: a header inside the received bytes whose length is below
\* the header size or runs past the received length makes recvmsg fail
\* with a validation error, and no record is returned for it.
C8_CorruptHeaderRejected ==
    ( /\ mode = "raw"
      /\ rpc = "done"
      /\ FirstHeaderCorrupt
      /\ rerr \notin OutsideFailures )
    => (rerr \in ValidationErrors /\ ~final_result.set)

\* Exceptions raised while the control buffer is sized and filled.
EncodeErrors == {"TypeError", "OverflowError", "MemoryError", "IterError"}

\* C9: sendmsg(2) is only called with no exception pending; once sizing or
\* filling has failed, sendmsg(2) is never called, nothing goes out, and
\* the caller gets NULL with the exception (no byte count).
C9_NoTransmitAfterFailure ==
    /\ spc = "transmit" => pyerr = "none"
    /\ pyerr \in EncodeErrors =>
          /\ sendmsg_calls = 0
          /\ ~wire.present
          /\ sret # "value"
    /\ (pyerr \in EncodeErrors /\ spc = "done" /\ sret # "crash")
          => sret = "NULL"

C9_Witness ==
    /\ spc = "done"
    /\ pyerr = "TypeError"
    /\ mallocs = 1
    /\ Len(hdr_offs) = 1
    /\ Len(items2) = 2
    /\ sret = "NULL"
    /\ sendmsg_calls = 0

\* C10: when recvmsg returns, it returns a result exactly when no exception
\* is set; a
\* returned list is the list of a finished walk; when building or
\* appending an entry fails the list built so far is dropped and NULL is
\* returned.
C10_AllOrNothing ==
    (rpc = "done" /\ rerr # "crash") =>
        /\ final_result.set <=> rerr = "none"
        /\ final_result.set =>
              /\ r_cm = NULL
              /\ final_result.ancillary = r_list
        /\ ~final_result.set => final_result = NoResult
        /\ ~r_list_live

C10_Witness ==
    /\ rpc = "done"
    /\ rerr = "MemoryError"
    /\ Len(r_list) >= 1
    /\ r_cm # NULL
    /\ ~final_result.set
    /\ ~r_list_live

\* C11: every OverflowError of sendmsg (wrapped sum, total above
\* SOCKLEN_MAX, one record whose CMSG_LEN is above SOCKLEN_MAX) is raised
\* before the control buffer is allocated and before anything is stored in
\* it: no state has OverflowError pending and a buffer that was allocated
\* or written.
C11_OverflowBeforeAlloc ==
    pyerr = "OverflowError" =>
        /\ mallocs = 0
        /\ msg_control = "null"
        /\ \A i \in DOMAIN controlbuf : controlbuf[i] = UNINIT

\* C12: sendmsg(2) and recvmsg(2) are each called at most once per call
\* and never again after a failure; when the call returns a negative value
\* the function returns NULL with socket.error carrying errno as the call
\* left it, and no byte count, data, flags or list is returned;
\* socket.error comes from nowhere else.
C12_TransportError ==
    /\ sendmsg_calls <= 1
    /\ recvmsg_calls <= 1
    /\ (errno # 0 /\ recvmsg_calls = 0) =>
          /\ sendmsg_calls = 1
          /\ spc = "done"
          /\ sret = "NULL"
          /\ pyerr = "socket.error"
          /\ err_code = errno
          /\ sent = 0
          /\ ~wire.present
          /\ rpc = "idle"
    /\ (errno # 0 /\ recvmsg_calls = 1) =>
          /\ rpc = "done"
          /\ rerr = "socket.error"
          /\ err_code = errno
          /\ final_result = NoResult
    /\ (pyerr = "socket.error" \/ rerr = "socket.error") => errno # 0

C12_Witness ==
    /\ mode = "send"
    /\ sendmsg_calls = 1
    /\ sret = "value"
    /\ recvmsg_calls = 1
    /\ rpc = "done"
    /\ rerr = "socket.error"
    /\ errno = 4
    /\ err_code = 4
    /\ ~final_result.set

\* C13: every record the fill pass wrote has, at its header offset, a
\* length field of exactly sizeof(struct cmsghdr) plus the data length
\* (no padding counted), then the record's level, then its type, and the
\* data bytes directly behind the 12 bytes of the header.  (Stated for the
\* stores that land in the malloc'ed block.)
C13_StoredLength ==
    ~heap_overflow =>
        \A i \in DOMAIN hdr_offs :
            LET off == hdr_offs[i]
                rec == items2[i]
                n   == Len(rec.data)
            IN  /\ SubSeq(controlbuf, off + 1, off + 4)
                      = IntBytes(SIZEOF_CMSGHDR + n)
                /\ SubSeq(controlbuf, off + 5, off + 8) = IntBytes(rec.level)
                /\ SubSeq(controlbuf, off + 9, off + 12) = IntBytes(rec.type)
                /\ SubSeq(controlbuf, off + SIZEOF_CMSGHDR + 1,
                          off + SIZEOF_CMSGHDR + n) = rec.data

C13_Witness ==
    /\ spc = "transmit"
    /\ ~heap_overflow
    /\ Len(hdr_offs) = 2
    /\ Len(items2[1].data) = 5
    /\ items2[1].level # items2[1].type
    /\ SubSeq(controlbuf, 1, 4) = <<17, 0, 0, 0>>
    /\ hdr_offs[2] = 20

\* 2^32, the modulus of size_t.
SizeModulus == [hi |-> 65536, lo |-> 0]

\* C14: the test "new sum < previous sum" after each add of the sizing
\* pass sees every wrap of the 32-bit total: whenever the unbounded sum of
\* the per-record space is 2^32 or more, sendmsg has failed with the
\* size_t OverflowError (naming the sum before the add that wrapped);
\* that error is never raised while the unbounded sum is below 2^32, and
\* then all_data_len is the unbounded sum.
C14_WrapDetected ==
    ( /\ ancillary = "LIST"
      /\ spc \notin {"args", "idle"}
      /\ NoBad(Sized) )
    => /\ ~NumLt(TrueSpace(Sized), SizeModulus) =>
             /\ spc = "done"
             /\ sret = "NULL"
             /\ pyerr = "OverflowError"
             /\ pymsg.fmt = "size_t"
             /\ pymsg.arg = TrueSpace(SubSeq(items1, 1, it - 1))
             /\ mallocs = 0
       /\ NumLt(TrueSpace(Sized), SizeModulus) =>
             /\ pymsg.fmt # "size_t"
             /\ all_data_len = TrueSpace(Sized)

C14_Witness ==
    /\ spc = "done"
    /\ items1 = <<Huge, Huge>>
    /\ it = 2
    /\ pymsg = [fmt |-> "size_t", arg |-> [hi |-> 32768, lo |-> 12]]
    /\ all_data_len = Num(24)
    /\ TrueSpace(Sized) = [hi |-> 65536, lo |-> 24]

\* C15: when both passes see the same list, the fill pass fits the buffer
\* the sizing pass measured: before each element is stored the cursor is a
\* header offset inside the buffer (assert(control_message) holds), record
\* i is stored at the sum of the space sized for the records before it,
\* the records stored take msg_controllen bytes in all, and no store lands
\* outside the buffer.
C15_FillFits ==
    ( /\ ancillary = "LIST"
      /\ spc \in {"fill", "transmit", "done"}
      /\ it = Len(items1)
      /\ mallocs = 1
      /\ items2 = items1 )
    => /\ sret # "crash"
       /\ ~heap_overflow
       /\ hdr_offs = SubSeq(StartOffsets(items1), 1, it2)
       /\ (spc = "fill" /\ it2 < Len(items2)) =>
             /\ control_message # NULL
             /\ control_message = StartOffsets(items1)[it2 + 1]
             /\ control_message + SIZEOF_CMSGHDR <= msg_controllen
       /\ spc = "transmit" => SumSpace(items2) = msg_controllen

\* C16: when sendmsg returns, by any path, every control buffer it
\* malloc'ed has been freed exactly once: none is left allocated, none is
\* freed twice.
C16_ReleasedOnce ==
    /\ frees <= mallocs
    /\ (spc = "done" /\ sret \in {"NULL", "value"}) =>
          /\ msg_control # "live"
          /\ frees = mallocs

====
